---- MODULE Spec2Model ----
(***************************************************************************)
(* DENTIST quality control of GWAS summary statistics (src/src/dentist.cpp) *)
(* as a state machine: the permutation generator generateSetOfNumbers, the *)
(* quantile helpers, the imputation pass oneIteration and the round loop   *)
(* of dentist.                                                             *)
(*                                                                         *)
(* Marker ids, ranks and positions are 0-based as in the source; lists     *)
(* (std::vector) are sequences, so element i of a vector v is v[i + 1].    *)
(* Per-marker arrays (arma::vec of length markerSize) are functions on     *)
(* 0 .. markerSize - 1.                                                    *)
(*                                                                         *)
(* Numeric scales.  R-squared and the LD diagonal are counted in quarters  *)
(* (RsqOne = 1.0).  Statistics are integers.  The dense linear algebra     *)
(* (eig_sym and the matrix products of lines 113-137) is a library call:   *)
(* its result for the round's reference set is the triple                  *)
(* (libRank, libImp, libRsq), drawn when the first pass of a round runs    *)
(* and a fixed function of (LDmat, zScore, idx) from then on.              *)
(***************************************************************************)
EXTENDS Integers, Sequences, FiniteSets, TLC

\* ---------------------------------------------------------------- bounds
MaxMarkers == 6
MaxIter == 2
GenBits == 3

\* ------------------------------------------------------ program constants
\* getQuantile2 line 75: fewer than 50 members give threshold 0
MinGroupSize == 50
\* quantile 0.995 of lines 232-234, as QuantileNum / QuantileDen
QuantileNum == 995
QuantileDen == 1000
\* rsq_eigen(i) >= 1 of line 143, in quarters
RsqOne == 4
\* propSVD is a float; it is modelled as propNum / PropDen
PropDen == 2

VARIABLES
    \* position in dentist(): "start", "impute1", "threshold", "impute2",
    \* "retest", "gc", "repartition", "done", "aborted", "crashed", "idle"
    pc,
    err,              \* what ended the call early: "none" or the error raised
    \* ---- arguments of dentist (lines 188-190)
    markerSize, ldDim, nSample, propNum, gcControl, nIter, pValueThreshold,
    groupingCut, zScore,
    \* ---- locals of dentist
    randOrder, fullIdx, idx, idx2, groupingGWAS,
    imputedZ, rsq, zScore_e, iterID, t,
    idx2_QCed, threshold, threshold1, threshold0, fullIdx_tmp,
    \* ---- oneIteration: the capped truncation rank of the last pass
    K,
    \* ---- the library's answer for the current reference set
    libRank, libImp, libRsq,
    \* ---- history: rounds in which a marker passed the test of lines 251-252
    passRounds,
    \* ---- generateSetOfNumbers run step by step (lines 33-61)
    gpc, gArg, SIZE, numbers, index, tempNum, retried, genOut

dvars == <<pc, err, markerSize, ldDim, nSample, propNum, gcControl, nIter,
           pValueThreshold, groupingCut, zScore, randOrder, fullIdx, idx, idx2,
           groupingGWAS, imputedZ, rsq, zScore_e, iterID, t, idx2_QCed,
           threshold, threshold1, threshold0, fullIdx_tmp, K, libRank, libImp,
           libRsq, passRounds>>

gvars == <<gpc, gArg, SIZE, numbers, index, tempNum, retried, genOut>>

vars == <<dvars, gvars>>

\* ---------------------------------------------------------------- helpers
Min(a, b) == IF a <= b THEN a ELSE b

Abs(x) == IF x < 0 THEN -x ELSE x

SetMax(S) == CHOOSE x \in S : \A y \in S : y <= x

SetMin(S) == CHOOSE x \in S : \A y \in S : x <= y

Elems(s) == {s[k] : k \in 1..Len(s)}

Iota(n) == [k \in 1..n |-> k - 1]

Zeros(n) == [i \in 0..(n - 1) |-> 0]

CeilDiv(a, b) == (a + b - 1) \div b

\* ------------------------------------------------ sort_indexes (lines 25-30)
\* The indices 0 .. theSize-1 ordered by their value in v (values distinct).
sort_indexes(v, theSize) ==
    [r \in 1..theSize |->
        CHOOSE i \in 0..(theSize - 1) :
            Cardinality({j \in 0..(theSize - 1) : v[j + 1] < v[i + 1]}) = r - 1]

\* -------------------------------------------------- getQuantile (lines 64-69)
\* size_t pos = ceil(size * q) - 1; an empty vector gives pos = -1, which as a
\* size_t is out of range for at().
QuantilePos(n) == CeilDiv(n * QuantileNum, QuantileDen) - 1

getQuantileThrows(dat) == QuantilePos(Len(dat)) < 0 \/ QuantilePos(Len(dat)) >= Len(dat)

\* sortedData.at(pos): the value with at most pos values below it and more
\* than pos values at or below it.
getQuantile(dat) ==
    LET pos == QuantilePos(Len(dat))
    IN  CHOOSE v \in Elems(dat) :
            /\ Cardinality({k \in 1..Len(dat) : dat[k] < v}) <= pos
            /\ Cardinality({k \in 1..Len(dat) : dat[k] <= v}) > pos

\* ------------------------------------------------- getQuantile2 (lines 72-77)
FilterByGroup(dat, grouping) ==
    LET keep == {k \in 1..Len(dat) : grouping[k] = 1}
        RECURSIVE Take(_)
        Take(k) == IF k > Len(dat) THEN <<>>
                   ELSE IF k \in keep THEN <<dat[k]>> \o Take(k + 1)
                   ELSE Take(k + 1)
    IN  Take(1)

getQuantile2(dat, grouping) ==
    LET filteredData == FilterByGroup(dat, grouping)
    IN  IF Len(filteredData) < MinGroupSize THEN 0 ELSE getQuantile(filteredData)

\* !grouping_tmp of line 234: the elementwise complement of the labels
NotGrouping(grouping) == [k \in 1..Len(grouping) |-> IF grouping[k] = 0 THEN 1 ELSE 0]

\* ----------------------------------------- minusLogPvalueChisq2 (lines 80-83)
\* -log10(1 - chi2cdf(stat, 1)) in thousandths, for the statistics that occur.
minusLogPvalueChisq2(stat) ==
    CASE stat = 0 -> 0
      [] stat = 1 -> 499
      [] stat = 4 -> 1342
      [] stat = 9 -> 2569
      [] OTHER    -> 4198

\* groupingGWAS of lines 204-209
Grouping(z, n, cut) ==
    [i \in 0..(n - 1) |-> IF minusLogPvalueChisq2(z[i] * z[i]) > cut THEN 1 ELSE 0]

\* ------------------------------------------- the bisection (lines 199-202, 279-282)
\* randOrder[i] for marker id i.  A read at i >= randOrder.size() is out of
\* bounds: it yields whatever garbage[i] holds.
RankOf(order, garbage, i) == IF i < Len(order) THEN order[i + 1] ELSE garbage[i]

InReference(order, garbage, n, i) == RankOf(order, garbage, i) > n \div 2

Reference(list, order, garbage, n) ==
    SelectSeq(list, LAMBDA i : InReference(order, garbage, n, i))

Target_strictlyBelow(list, order, garbage, n) ==
    SelectSeq(list, LAMBDA i : RankOf(order, garbage, i) < n \div 2)

Target(list, order, garbage, n) ==
    SelectSeq(list, LAMBDA i : ~InReference(order, garbage, n, i))

\* marker ids of `list` whose lookup in a permutation of size n is out of bounds
OutOfBounds(list, n) == {i \in Elems(list) : i >= n}

\* the values a stray read can compare as: at or below the midpoint, above it
GarbageValues(n) == {0, n}

\* ---------------------------------------------- oneIteration (lines 86-149)
\* uint K = std::min(idx.size(), nSample) * probSVD   (line 91, truncated)
RankBudget(ref) == (Min(Len(ref), nSample) * propNum) \div PropDen

RankDeficient_zeroOnly(k) == k < 1

\* K = std::min(K, nRank); if (K <= 1) stop   (lines 121-124)
RankDeficient(k) == k <= 1

\* if (rsq_eigen(i) >= 1) stop   (line 143)
DegenerateResidual(r) == r >= RsqOne

\* LDmat(j, j), in quarters: the diagonal of a correlation matrix
LDdiag(j) == RsqOne

Isqrt(x) == CHOOSE s \in 0..x : s * s = x

\* (zScore[j] - imputedZ[j]) / sqrt(LDmat(j, j) - rsqList[j])   (line 147)
AdjustedStat(z, imp, ldjj, r) == ((z - imp) * 2) \div Isqrt(ldjj - r)

GatherRow_callerTargets(tgt, k) == idx2[k]

\* Row i of LD_it, zScore_eigen_imp and rsq_eigen belongs to marker idx2[i],
\* idx2 being the parameter of oneIteration   (lines 99-103)
GatherRow(tgt, k) == tgt[k]

\* LDmat(a, b) with a or b at or beyond the matrix dimension is refused by the
\* matrix library.  VV reads LDmat at the reference ids; LD_it reads it at the
\* target ids when there is at least one reference id.
LDOutOfRange(ref, tgt) ==
    \/ \E k \in 1..Len(ref) : ref[k] >= ldDim
    \/ Len(ref) > 0 /\ \E k \in 1..Len(tgt) : tgt[k] >= ldDim

\* nRank of lines 118-120: the number of eigenvalues of VV that are >= 0.0001.
\* VV has one row per entry of idx; equal entries give equal rows, so the rank
\* is at most the number of distinct reference markers.
Ranks(ref) == 0..Cardinality(Elems(ref))

\* One call.  rank is the effective rank the eigendecomposition finds
\* (eigenvalues >= 0.0001), limp / lrsq the imputed statistic and R-squared
\* the matrix products give for each target marker.  The scatter loop of
\* lines 140-148 is taken in index order: it stops at the first row whose
\* R-squared is >= 1, after writing that row's imputedZ and rsqList.
oneIteration(ref, tgt, rank, limp, lrsq) ==
    LET Kc      == Min(RankBudget(ref), rank)
        rowOf(k) == GatherRow(tgt, k)
        bad     == {k \in 1..Len(tgt) : DegenerateResidual(lrsq[rowOf(k)])}
        stopAt  == IF bad = {} THEN Len(tgt) + 1 ELSE SetMin(bad)
        rowsAt(j, last) == {k \in 1..Min(last, Len(tgt)) : tgt[k] = j}
        same    == [error |-> "none", K |-> Kc, imputedZ |-> imputedZ,
                    rsq |-> rsq, zScore_e |-> zScore_e]
    IN  IF LDOutOfRange(ref, tgt)
        THEN [same EXCEPT !.error = "index out of bounds", !.K = K]
        ELSE IF RankDeficient(Kc)
        THEN [same EXCEPT !.error = "Rank of eigen matrix <= 1"]
        ELSE [error |-> IF bad = {} THEN "none" ELSE "Dividing zero: Rsq",
              K |-> Kc,
              imputedZ |-> [j \in DOMAIN imputedZ |->
                  IF rowsAt(j, stopAt) = {} THEN imputedZ[j]
                  ELSE limp[rowOf(SetMax(rowsAt(j, stopAt)))]],
              rsq |-> [j \in DOMAIN rsq |->
                  IF rowsAt(j, stopAt) = {} THEN rsq[j]
                  ELSE lrsq[rowOf(SetMax(rowsAt(j, stopAt)))]],
              zScore_e |-> [j \in DOMAIN zScore_e |->
                  IF rowsAt(j, stopAt - 1) = {} THEN zScore_e[j]
                  ELSE LET k == SetMax(rowsAt(j, stopAt - 1))
                       IN  AdjustedStat(zScore[j], limp[rowOf(k)], LDdiag(j),
                                        lrsq[rowOf(k)])]]

\* ------------------------------------------------------------ input families
\* observed statistics: all zero, all significant, alternating
ZFamily(n) ==
    {[i \in 0..(n - 1) |-> 0], [i \in 0..(n - 1) |-> 2],
     [i \in 0..(n - 1) |-> 2 * (i % 2)]}

\* -log10(groupingPvalue_thresh) in thousandths: p = 0.05
GroupingCuts == {1301}

\* The draws generateSetOfNumbers ends with: SIZE pairwise distinct values.
\* The generator is seeded, so the draws are a function of (SIZE, seed); the
\* seeds are represented by three rotations of 0 .. SIZE-1.
SeedShifts(n) == {0, 1, n - 1}

Draws(n) == {[k \in 1..n |-> (k - 1 + s) % n] : s \in SeedShifts(n)}

\* generateSetOfNumbers as one step, for SIZE >= 1   (lines 33-61)
generateSetOfNumbers(n) == {sort_indexes(d, n) : d \in Draws(n)}

\* what the library may return
ImpFamily(n) ==
    {[i \in 0..(n - 1) |-> 0], [i \in 0..(n - 1) |-> 2],
     [i \in 0..(n - 1) |-> 2 * (i % 2)], [i \in 0..(n - 1) |-> 2 * ((i + 1) % 2)]}

RsqFamily(n, tgt) ==
    {[i \in 0..(n - 1) |-> 0], [i \in 0..(n - 1) |-> 3]}
    \cup {[i \in 0..(n - 1) |-> IF i = d THEN RsqOne ELSE 0] :
            d \in IF Len(tgt) = 0 THEN {} ELSE {tgt[1], tgt[Len(tgt)]}}

\* chisq of lines 261-263 is declared nowhere: the inflation factor is any
\* positive value
InflationFactors == {1, 4}

PValueThresholds == {1, 5}

Configs(n) ==
    \* well-formed calls
    {[nSample |-> 3, propNum |-> PropDen, ldDim |-> n, gcControl |-> g,
      nIter |-> r, pValueThreshold |-> pv] :
        g \in {TRUE}, r \in 1..MaxIter, pv \in PValueThresholds}
    \cup
    {[nSample |-> 3, propNum |-> PropDen, ldDim |-> n, gcControl |-> FALSE,
      nIter |-> r, pValueThreshold |-> 1] : r \in 1..MaxIter}
    \cup
    \* truncation proportion 1/2; sample size 0; proportion 0; LD matrix too small
    {[nSample |-> ns, propNum |-> pn, ldDim |-> d, gcControl |-> FALSE,
      nIter |-> 1, pValueThreshold |-> 1] :
        ns \in {0, 3}, pn \in {0, 1, PropDen}, d \in {n}}
    \cup
    {[nSample |-> 3, propNum |-> PropDen, ldDim |-> n - 1, gcControl |-> FALSE,
      nIter |-> 1, pValueThreshold |-> 1] : d \in IF n > 0 THEN {n} ELSE {}}

\* ------------------------------------------------------------------ states
Empty == <<>>

IdleD ==
    /\ pc = "idle" /\ err = "none"
    /\ markerSize = 0 /\ ldDim = 0 /\ nSample = 0 /\ propNum = 0
    /\ gcControl = FALSE /\ nIter = 0 /\ pValueThreshold = 0 /\ groupingCut = 0
    /\ zScore = Empty /\ randOrder = Empty /\ fullIdx = Empty
    /\ idx = Empty /\ idx2 = Empty /\ groupingGWAS = Empty
    /\ imputedZ = Empty /\ rsq = Empty /\ zScore_e = Empty /\ iterID = Empty
    /\ t = 0 /\ idx2_QCed = Empty
    /\ threshold = 0 /\ threshold1 = 0 /\ threshold0 = 0 /\ fullIdx_tmp = Empty
    /\ K = 0 /\ libRank = 0 /\ libImp = Empty /\ libRsq = Empty
    /\ passRounds = Empty

IdleG ==
    /\ gpc = "idle" /\ gArg = 0 /\ SIZE = 0 /\ numbers = Empty
    /\ index = 0 /\ tempNum = 0 /\ retried = FALSE /\ genOut = Empty

\* The state when dentist is entered: the arguments are bound, no local exists.
Init ==
    /\ IdleG
    /\ pc = "start" /\ err = "none"
    /\ markerSize \in 0..MaxMarkers
    /\ zScore \in ZFamily(markerSize)
    /\ groupingCut \in GroupingCuts
    /\ \E c \in Configs(markerSize) :
        /\ nSample = c.nSample /\ propNum = c.propNum /\ ldDim = c.ldDim
        /\ gcControl = c.gcControl /\ nIter = c.nIter
        /\ pValueThreshold = c.pValueThreshold
    /\ randOrder = Empty /\ fullIdx = Empty /\ idx = Empty /\ idx2 = Empty
    /\ groupingGWAS = Empty
    /\ imputedZ = Empty /\ rsq = Empty /\ zScore_e = Empty /\ iterID = Empty
    /\ t = 0 /\ idx2_QCed = Empty
    /\ threshold = 0 /\ threshold1 = 0 /\ threshold0 = 0 /\ fullIdx_tmp = Empty
    /\ K = 0 /\ libRank = 0 /\ libImp = Empty /\ libRsq = Empty
    /\ passRounds = Empty

inputs == <<markerSize, ldDim, nSample, propNum, gcControl, nIter,
            pValueThreshold, groupingCut, zScore>>

\* ------------------------------------------------- dentist, lines 192-214
\* generateSetOfNumbers(0, seed) writes numbers[0] of an empty vector: the
\* write either faults or goes unnoticed.
Call ==
    /\ pc = "start"
    /\ \E order \in (IF markerSize = 0 THEN {Empty}
                     ELSE generateSetOfNumbers(markerSize)),
          fault \in (IF markerSize = 0 THEN BOOLEAN ELSE {FALSE}) :
        /\ randOrder' = order
        /\ fullIdx' = order
        /\ idx' = Reference(Iota(markerSize), order, Empty, markerSize)
        /\ idx2' = Target(Iota(markerSize), order, Empty, markerSize)
        /\ pc' = IF fault THEN "crashed"
                 ELSE IF 0 < nIter THEN "impute1" ELSE "done"
        /\ err' = IF fault THEN "stray write" ELSE "none"
    /\ groupingGWAS' = Grouping(zScore, markerSize, groupingCut)
    /\ imputedZ' = Zeros(markerSize)
    /\ rsq' = Zeros(markerSize)
    /\ zScore_e' = Zeros(markerSize)
    /\ iterID' = Zeros(markerSize)
    /\ passRounds' = Zeros(markerSize)
    /\ libImp' = Zeros(markerSize)
    /\ libRsq' = Zeros(markerSize)
    /\ UNCHANGED <<inputs, t, idx2_QCed, threshold, threshold1, threshold0,
                   fullIdx_tmp, K, libRank, gvars>>

\* Rcpp::stop at line 123 is an exception that unwinds dentist.  The stop of
\* line 144 and the refused element access of lines 101 and 109 are raised
\* inside "omp parallel for" loops: the exception either unwinds dentist as
\* well or leaves the parallel region and ends the process.
RaisedInParallelLoop(e) == e \in {"Dividing zero: Rsq", "index out of bounds"}

\* the effect of one oneIteration call on dentist's state
Pass(r, next) ==
    /\ imputedZ' = r.imputedZ
    /\ rsq' = r.rsq
    /\ zScore_e' = r.zScore_e
    /\ K' = r.K
    /\ err' = r.error
    /\ pc' \in IF r.error = "none" THEN {next}
               ELSE IF RaisedInParallelLoop(r.error) THEN {"aborted", "crashed"}
               ELSE {"aborted"}

\* ------------------------------------------------------ dentist, line 222
\* The first pass of a round: idx against the whole target set idx2.  The
\* library's results for this reference set are fixed here.
Impute1 ==
    /\ pc = "impute1"
    /\ \E rank \in (IF LDOutOfRange(idx, idx2) THEN {libRank} ELSE Ranks(idx)) :
        /\ libRank' = rank
        /\ IF LDOutOfRange(idx, idx2) \/ RankDeficient(Min(RankBudget(idx), rank))
           THEN /\ Pass(oneIteration(idx, idx2, rank, libImp, libRsq), "threshold")
                /\ UNCHANGED <<libImp, libRsq>>
           ELSE \E limp \in ImpFamily(markerSize),
                   lrsq \in RsqFamily(markerSize, idx2) :
                /\ libImp' = limp
                /\ libRsq' = lrsq
                /\ Pass(oneIteration(idx, idx2, rank, limp, lrsq), "threshold")
    /\ UNCHANGED <<inputs, randOrder, fullIdx, idx, idx2, groupingGWAS, iterID, t,
                   idx2_QCed, threshold, threshold1, threshold0, fullIdx_tmp,
                   passRounds, gvars>>

\* ------------------------------------------------- dentist, lines 225-242
Diff == [k \in 1..Len(idx2) |-> Abs(zScore_e[idx2[k]])]

GroupingTmp == [k \in 1..Len(idx2) |-> groupingGWAS[idx2[k]]]

\* the test of lines 238-239 and 251-252
WithinThreshold(g, d, th1, th0) ==
    \/ g = 1 /\ d <= th1
    \/ g = 0 /\ d <= th0

Threshold ==
    /\ pc = "threshold"
    /\ IF getQuantileThrows(Diff)
       THEN /\ pc' = "aborted"
            /\ err' = "out_of_range"
            /\ UNCHANGED <<threshold, threshold1, threshold0, idx2_QCed>>
       ELSE LET th1 == getQuantile2(Diff, GroupingTmp)
                th0 == getQuantile2(Diff, NotGrouping(GroupingTmp))
            IN  /\ threshold' = getQuantile(Diff)
                /\ threshold1' = th1
                /\ threshold0' = th0
                /\ idx2_QCed' = SelectSeq(idx2, LAMBDA i :
                        WithinThreshold(groupingGWAS[i], Abs(zScore_e[i]), th1, th0))
                /\ pc' = "impute2"
                /\ err' = "none"
    /\ UNCHANGED <<inputs, randOrder, fullIdx, idx, idx2, groupingGWAS, imputedZ,
                   rsq, zScore_e, iterID, t, fullIdx_tmp, K, libRank, libImp,
                   libRsq, passRounds, gvars>>

\* ------------------------------------------------------ dentist, line 245
\* The second pass: the same reference set, the QC'd targets.
Impute2 ==
    /\ pc = "impute2"
    /\ Pass(oneIteration(idx, idx2_QCed, libRank, libImp, libRsq), "retest")
    /\ UNCHANGED <<inputs, randOrder, fullIdx, idx, idx2, groupingGWAS, iterID, t,
                   idx2_QCed, threshold, threshold1, threshold0, fullIdx_tmp,
                   libRank, libImp, libRsq, passRounds, gvars>>

\* ------------------------------------------------- dentist, lines 247-256
\* Every entry of fullIdx is re-tested; each entry that passes is kept and
\* counts once in iterID.
Survives(i) ==
    WithinThreshold(groupingGWAS[i], Abs(zScore_e[i]), threshold1, threshold0)

Retest ==
    /\ pc = "retest"
    /\ fullIdx_tmp' = SelectSeq(fullIdx, Survives)
    /\ iterID' = [i \in DOMAIN iterID |->
            iterID[i] + Cardinality({k \in 1..Len(fullIdx) :
                                        fullIdx[k] = i /\ Survives(i)})]
    /\ passRounds' = [i \in DOMAIN passRounds |->
            passRounds[i] + (IF i \in Elems(fullIdx) /\ Survives(i) THEN 1 ELSE 0)]
    /\ pc' = IF gcControl THEN "gc" ELSE "repartition"
    /\ UNCHANGED <<err, inputs, randOrder, fullIdx, idx, idx2, groupingGWAS,
                   imputedZ, rsq, zScore_e, t, idx2_QCed, threshold, threshold1,
                   threshold0, K, libRank, libImp, libRsq, gvars>>

\* ------------------------------------------------- dentist, lines 259-272
\* pow(zScore_e, 2) / inflationFactor < pValueThreshold, inflationFactor > 0
GCKeeps(i, inflationFactor) ==
    zScore_e[i] * zScore_e[i] < pValueThreshold * inflationFactor

GenomicControl ==
    /\ pc = "gc"
    /\ \E inflationFactor \in InflationFactors :
        fullIdx_tmp' = fullIdx_tmp \o
            SelectSeq(fullIdx, LAMBDA i : GCKeeps(i, inflationFactor))
    /\ pc' = "repartition"
    /\ UNCHANGED <<err, inputs, randOrder, fullIdx, idx, idx2, groupingGWAS,
                   imputedZ, rsq, zScore_e, iterID, t, idx2_QCed, threshold,
                   threshold1, threshold0, K, libRank, libImp, libRsq,
                   passRounds, gvars>>

\* ------------------------------------------------- dentist, lines 275-282
\* randOrder has fullIdx.size() entries and is read at the marker ids of
\* fullIdx.  A read beyond its end faults or returns garbage; a permutation
\* of size 0 is generated with a stray write, as in Call.
Repartition ==
    /\ pc = "repartition"
    /\ LET n == Len(fullIdx_tmp)
           stray == OutOfBounds(fullIdx_tmp, n)
       IN  \E order \in (IF n = 0 THEN {Empty} ELSE generateSetOfNumbers(n)),
              fault \in (IF n = 0 \/ stray # {} THEN BOOLEAN ELSE {FALSE}),
              garbage \in [stray -> GarbageValues(n)] :
            /\ fullIdx' = fullIdx_tmp
            /\ randOrder' = order
            /\ IF fault
               THEN /\ pc' = "crashed"
                    /\ err' = IF n = 0 THEN "stray write" ELSE "stray read"
                    /\ idx' = Empty
                    /\ idx2' = Empty
                    /\ t' = t
               ELSE /\ idx' = Reference(fullIdx_tmp, order, garbage, n)
                    /\ idx2' = Target(fullIdx_tmp, order, garbage, n)
                    /\ t' = t + 1
                    /\ pc' = IF t + 1 < nIter THEN "impute1" ELSE "done"
                    /\ err' = "none"
    /\ UNCHANGED <<inputs, groupingGWAS, imputedZ, rsq, zScore_e, iterID,
                   idx2_QCed, threshold, threshold1, threshold0, fullIdx_tmp, K,
                   libRank, libImp, libRsq, passRounds, gvars>>

Next ==
    \/ Call
    \/ Impute1
    \/ Threshold
    \/ Impute2
    \/ Retest
    \/ GenomicControl
    \/ Repartition

Spec == Init /\ [][Next]_vars

\* ------------------------------------- generateSetOfNumbers, lines 33-61
\* The generator run draw by draw, on a machine whose int and unsigned int
\* are GenBits wide: INT_MAX = 2^(GenBits-1) - 1, and the distribution of
\* line 36 draws from 0 .. INT_MAX.
Pow2(n) == IF n = 0 THEN 1 ELSE 2 * 2 ^ (n - 1)

IntMax == Pow2(GenBits - 1) - 1

UIntMax == Pow2(GenBits) - 1

\* std::uniform_int_distribution<int> dist(0, INT_MAX)   (line 36)
DrawSpace == 0..IntMax

ToInt_unconverted(u) == u

\* the conversion of the caller's unsigned count to the parameter int SIZE
ToInt(u) == IF u > IntMax THEN u - Pow2(GenBits) ELSE u

InitGen ==
    /\ IdleD
    /\ gpc = "entry"
    /\ gArg \in 0..UIntMax
    /\ SIZE = 0 /\ numbers = Empty /\ index = 0 /\ tempNum = 0
    /\ retried = FALSE /\ genOut = Empty

\* line 34: std::vector<int> numbers(SIZE, 0).  A negative SIZE converts to a
\* size_t beyond max_size() and the constructor throws.
GenEnter ==
    /\ gpc = "entry"
    /\ SIZE' = ToInt(gArg)
    /\ IF ToInt(gArg) < 0
       THEN gpc' = "rejected" /\ numbers' = numbers
       ELSE gpc' = "first" /\ numbers' = [k \in 1..ToInt(gArg) |-> 0]
    /\ UNCHANGED <<gArg, index, tempNum, retried, genOut, dvars>>

\* line 39: numbers[0] = dist(rng); with SIZE = 0 this is a stray write
GenFirst ==
    /\ gpc = "first"
    /\ \E d \in DrawSpace, fault \in (IF SIZE = 0 THEN BOOLEAN ELSE {FALSE}) :
        /\ numbers' = IF SIZE = 0 THEN numbers ELSE [numbers EXCEPT ![1] = d]
        /\ gpc' = IF fault THEN "crashed" ELSE "loop"
    /\ index' = 1
    /\ UNCHANGED <<gArg, SIZE, tempNum, retried, genOut, dvars>>

\* lines 45-51
isUnique(d) == \A index2 \in 0..(index - 1) : d # numbers[index2 + 1]

\* lines 42-56, a draw that is new: it is stored and the for loop advances
GenDrawFresh ==
    /\ gpc = "loop"
    /\ index < SIZE
    /\ \E d \in DrawSpace :
        /\ isUnique(d)
        /\ tempNum' = d
        /\ numbers' = [numbers EXCEPT ![index + 1] = d]
    /\ index' = index + 1
    /\ UNCHANGED <<gpc, gArg, SIZE, retried, genOut, dvars>>

\* lines 42-54, a draw that repeats an earlier one: tempNum = -1, try again
GenDrawDuplicate ==
    /\ gpc = "loop"
    /\ index < SIZE
    /\ \E d \in DrawSpace : ~isUnique(d)
    /\ tempNum' = -1
    /\ retried' = TRUE
    /\ UNCHANGED <<gpc, gArg, SIZE, numbers, index, genOut, dvars>>

\* line 60
GenSort ==
    /\ gpc = "loop"
    /\ ~(index < SIZE)
    /\ genOut' = sort_indexes(numbers, SIZE)
    /\ gpc' = "done"
    /\ UNCHANGED <<gArg, SIZE, numbers, index, tempNum, retried, dvars>>

NextGen ==
    \/ GenEnter
    \/ GenFirst
    \/ GenDrawFresh
    \/ GenDrawDuplicate
    \/ GenSort

\* The function always takes its next step, and the uniform generator does
\* not withhold a value that is still unused for ever.
SpecGen ==
    /\ InitGen
    /\ [][NextGen]_vars
    /\ WF_vars(GenEnter)
    /\ WF_vars(GenFirst)
    /\ WF_vars(GenDrawFresh)
    /\ WF_vars(GenSort)

\* ================================================================== claims
AtRoundStart == pc \in {"impute1", "done"}

\* C1: at the start of every round (after the initial split and after every
\* re-partition) idx and idx2 partition fullIdx: no marker is in both, every
\* active marker is in one of them, and |idx| + |idx2| = |fullIdx|.
C1_Partition ==
    AtRoundStart =>
        /\ Elems(idx) \cap Elems(idx2) = {}
        /\ Elems(idx) \cup Elems(idx2) = Elems(fullIdx)
        /\ Len(idx) + Len(idx2) = Len(fullIdx)

\* a re-partition of an active set that filtering has shrunk
C1_Witness ==
    /\ pc = "impute1" /\ t >= 1
    /\ Len(fullIdx) < markerSize
    /\ Len(idx) > 0 /\ Len(idx2) > 0

\* C2: at the start of every round the sizes of the reference set and of the
\* target set differ by at most 1.
C2_Balanced == AtRoundStart => Abs(Len(idx) - Len(idx2)) <= 1

\* C3: a round never leaves the active set larger than it found it, with
\* genomic control enabled or disabled.
C3_NeverGrows == [][pc = "repartition" => Len(fullIdx') <= Len(fullIdx)]_vars

\* C4: at every round boundary iterID[i] is the number of completed rounds in
\* which marker i passed the threshold test, and is at most the number t of
\* completed rounds.
C4_SurvivalCount ==
    AtRoundStart =>
        \A i \in DOMAIN iterID : iterID[i] = passRounds[i] /\ iterID[i] <= t

GroupMembers(g) == Cardinality({k \in 1..Len(idx2) : GroupingTmp[k] = g})

\* C5: a target marker whose group has fewer than 50 members in the target
\* subset (threshold 0) is not filtered: it is in the QC'd target subset, and
\* in the survivors of the re-test.
C5_ZeroThresholdKeeps ==
    \A k \in 1..Len(idx2) :
        GroupMembers(GroupingTmp[k]) < MinGroupSize =>
            /\ pc = "impute2" => idx2[k] \in Elems(idx2_QCed)
            /\ pc \in {"gc", "repartition"} => idx2[k] \in Elems(fullIdx_tmp)

NoResult == pc \in {"aborted", "crashed"}

\* C6: a pass whose capped rank K is <= 1, or that computes an R-squared >= 1,
\* ends the call without a result; nothing runs after that; and every
\* R-squared of a returned result is < 1.
C6_AbortsWholeRun ==
    /\ [][/\ (pc \in {"impute1", "impute2"} /\ K' <= 1) => NoResult'
          /\ (pc \in {"impute1", "impute2"}
                /\ \E j \in DOMAIN rsq' : rsq'[j] >= RsqOne) => NoResult'
          /\ ~NoResult]_vars
    /\ [](pc = "done" => \A j \in DOMAIN rsq : rsq[j] < RsqOne)

\* a degenerate R-squared met in the second round
C6_Witness == pc = "aborted" /\ err = "Dividing zero: Rsq" /\ t >= 1

Malformed ==
    \/ markerSize = 0
    \/ ldDim # markerSize
    \/ propNum <= 0
    \/ nSample <= 0

\* C7: a call with malformed inputs is rejected before anything is computed:
\* no permutation, no partition, no imputation, no marker state.
C7_RejectedUpFront ==
    Malformed =>
        /\ pc = "start"
        /\ randOrder = Empty /\ idx = Empty /\ idx2 = Empty
        /\ imputedZ = Empty /\ K = 0

GenEnded == gpc \in {"done", "rejected", "crashed"}

\* C8: generateSetOfNumbers ends for every count: with SIZE pairwise distinct
\* draws, or, for a count at or beyond the size of the draw space, refused
\* before a single draw.
C8_GeneratorEnds ==
    /\ <>GenEnded
    /\ [](gpc = "done" =>
            /\ SIZE = gArg /\ Len(numbers) = SIZE
            /\ \A a, b \in 1..Len(numbers) : a # b => numbers[a] # numbers[b])
    /\ [](gArg >= Cardinality(DrawSpace) => gpc \in {"entry", "rejected"})

\* the largest count, ended after at least one repeated draw
C8_Witness == gpc = "done" /\ retried /\ SIZE = IntMax

\* C9: every randOrder[i] read for a marker i of the active set is within the
\* permutation.
C9_LookupInBounds ==
    pc # "start" => \A k \in 1..Len(fullIdx) : fullIdx[k] < Len(randOrder)

====
